---- MODULE Spec2Model ----
(***************************************************************************)
(* tcg-scanman: the two generator scripts.                                 *)
(*                                                                         *)
(*   create-pokemon-pdf.py     create_mat_pdf: a letter page with a card   *)
(*                             outline and four ArUco markers, handed to   *)
(*                             the canvas through temp_marker_<id>.png     *)
(*   scad-matrix-generator.py  the 6x6 bit matrices of markers 0..3,       *)
(*                             printed as an OpenSCAD conditional table    *)
(*                                                                         *)
(* Lengths are exact rationals held as integers: millimetre values in      *)
(* units of 1/MmDen mm, point values in units of 1/PtDen pt.  Python's     *)
(* floats are modelled by these exact values (no rounding).                *)
(***************************************************************************)
EXTENDS Integers, Sequences, FiniteSets, TLC

VARIABLES
    cfg,             \* the "Configuration" constants read by create_mat_pdf
    files,           \* the working directory: file name -> content
    pc,              \* per invocation of create_mat_pdf: its position
    canvas,          \* per invocation: the operations drawn on the Canvas
    i,               \* per invocation: index of the marker loop (lines 77-94)
    temp_img_files,  \* per invocation: the list of line 75
    j,               \* per invocation: index of the cleanup loop (lines 100-102)
    events,          \* per invocation: file operations performed, in order
    dict,            \* the marker dictionary handed to the matrix generator
    ids,             \* the list the matrix generator iterates over (line 11)
    spc,             \* matrix generator: its position
    k,               \* matrix generator: index into ids
    bits,            \* matrix generator: the matrix of line 24
    r,               \* matrix generator: next row of bits to print
    stdout           \* matrix generator: the lines printed so far

matVars == <<cfg, files, pc, canvas, i, temp_img_files, j, events>>
scadVars == <<dict, ids, spc, k, bits, r, stdout>>
vars == <<cfg, files, pc, canvas, i, temp_img_files, j, events,
          dict, ids, spc, k, bits, r, stdout>>

----------------------------------------------------------------------------
(* Bounds of the model.                                                    *)

MaxDim == 2      \* layout values tried: MinDim..MaxDim steps of StepMm, and the configured ones
MaxSeed == 3     \* synthetic dictionaries: each seed component in 0..MaxSeed
MaxIds == 2      \* longest list of requested marker IDs tried
NumProcs == 2    \* concurrent invocations of create_mat_pdf

MinDim == 0 - 1
Procs == 1..NumProcs

----------------------------------------------------------------------------
(* Units.                                                                  *)

\* Every millimetre value of the model is an even multiple of 1/MmDen mm, so
\* that halving it, and converting it to points, is exact.
MmDen == 10 * 10
PtDen == 5 * 127
StepMm == 5 * MmDen

\* reportlab.lib.units.mm = 72 / 25.4 = 360 / 127 points: X * mm
mm(v) == (v * 360 * (PtDen \div 127)) \div MmDen

\* reportlab.lib.pagesizes.letter = (612, 792) points
letter == <<612 * PtDen, 792 * PtDen>>

----------------------------------------------------------------------------
(* create-pokemon-pdf.py: configuration.                                   *)

OUTPUT_FILENAME == "pokemon_card_scanning_mat.pdf"
MARKER_SIZE_MM == 20 * MmDen
CARD_WIDTH_MM == 635 * (MmDen \div 10)
CARD_HEIGHT_MM == 889 * (MmDen \div 10)
GAP_MM == 10 * MmDen
DictSize == 250
size_pixels == 200

Configured ==
    [card_width_mm |-> CARD_WIDTH_MM, card_height_mm |-> CARD_HEIGHT_MM,
     marker_size_mm |-> MARKER_SIZE_MM, gap_mm |-> GAP_MM]

DimValues == {n * StepMm : n \in MinDim..MaxDim}

LayoutSpecs ==
    [card_width_mm : DimValues \cup {CARD_WIDTH_MM},
     card_height_mm : DimValues \cup {CARD_HEIGHT_MM},
     marker_size_mm : DimValues \cup {MARKER_SIZE_MM},
     gap_mm : DimValues \cup {GAP_MM}]

----------------------------------------------------------------------------
(* create-pokemon-pdf.py: the arithmetic of create_mat_pdf.                *)

width == letter[1]
height == letter[2]

\* variant: the page width taken for its centre
center_xWhole == width
center_x == width \div 2
center_y == height \div 2

card_w_pt(c) == mm(c.card_width_mm)
card_h_pt(c) == mm(c.card_height_mm)
marker_size_pt(c) == mm(c.marker_size_mm)

marker_ids == <<0, 1, 2, 3>>

x_offset(c) == mm(c.card_width_mm \div 2 + c.gap_mm + c.marker_size_mm \div 2)

\* variant: the whole marker size added instead of half of it
y_offsetFullMarker(c) == mm(c.card_height_mm \div 2 + c.gap_mm + c.marker_size_mm)
y_offset(c) == mm(c.card_height_mm \div 2 + c.gap_mm + c.marker_size_mm \div 2)

\* variant: a sign lost in the third entry
positionsDup(c) ==
    << <<0 - x_offset(c), y_offset(c)>>,
       <<x_offset(c), y_offset(c)>>,
       <<x_offset(c), y_offset(c)>>,
       <<0 - x_offset(c), 0 - y_offset(c)>> >>
\* variant: Z order (TL, TR, BL, BR)
positionsZ(c) ==
    << <<0 - x_offset(c), y_offset(c)>>,
       <<x_offset(c), y_offset(c)>>,
       <<0 - x_offset(c), 0 - y_offset(c)>>,
       <<x_offset(c), 0 - y_offset(c)>> >>
positions(c) ==
    << <<0 - x_offset(c), y_offset(c)>>,       \* TL
       <<x_offset(c), y_offset(c)>>,           \* TR
       <<x_offset(c), 0 - y_offset(c)>>,       \* BR
       <<0 - x_offset(c), 0 - y_offset(c)>> >> \* BL

draw_x(c, n) == center_x + positions(c)[n][1] - marker_size_pt(c) \div 2
draw_y(c, n) == center_y + positions(c)[n][2] - marker_size_pt(c) \div 2

\* generate_marker: the dictionary's image of marker id, size_pixels wide;
\* OpenCV refuses an id that is no index of the dictionary
ValidId(id) == 0 <= id /\ id < DictSize
generate_marker(id) == [kind |-> "png", marker |-> id, size |-> size_pixels, page |-> <<>>]

temp_filename(m_id) == "temp_marker_" \o ToString(m_id) \o ".png"

\* Canvas operations, as recorded: c.rect, c.drawCentredString, c.drawImage, c.drawString
RectOp(x, y, w, h) == [op |-> "rect", x |-> x, y |-> y, w |-> w, h |-> h, arg |-> "", marker |-> 0 - 1]
TextOp(x, y, s) == [op |-> "centred", x |-> x, y |-> y, w |-> 0, h |-> 0, arg |-> s, marker |-> 0 - 1]
ImageOp(name, img, x, y, w, h) ==
    [op |-> "image", x |-> x, y |-> y, w |-> w, h |-> h, arg |-> name, marker |-> img.marker]
StringOp(x, y, m_id) == [op |-> "string", x |-> x, y |-> y, w |-> 0, h |-> 0, arg |-> "ID", marker |-> m_id]

Event(e, f) == [ev |-> e, file |-> f]

StaleFile == [kind |-> "stale", marker |-> 0 - 1, size |-> 0, page |-> <<>>]
PdfFile(page) == [kind |-> "pdf", marker |-> 0 - 1, size |-> 0, page |-> page]

TempNames == {temp_filename(marker_ids[n]) : n \in 1..Len(marker_ids)}

\* Working directories create_mat_pdf may start in: empty, or holding the
\* files an earlier run left behind
InitialDirs ==
    { [f \in D |-> StaleFile] : D \in {{}, TempNames \cup {OUTPUT_FILENAME}} }

Put(fs, name, content) == [f \in DOMAIN fs \cup {name} |-> IF f = name THEN content ELSE fs[f]]
Del(fs, name) == [f \in DOMAIN fs \ {name} |-> fs[f]]

----------------------------------------------------------------------------
(* create-pokemon-pdf.py: create_mat_pdf, one action per step.  p is one   *)
(* invocation; invocations share the working directory.                    *)

Step(p, to) == pc' = [pc EXCEPT ![p] = to]
Log(p, e, f) == events' = [events EXCEPT ![p] = Append(@, Event(e, f))]

\* lines 36-41: the Canvas and the page centre
NewCanvas(p) ==
    /\ pc[p] = "start"
    /\ canvas' = [canvas EXCEPT ![p] = <<>>]
    /\ Step(p, "outline")
    /\ UNCHANGED <<cfg, files, i, temp_img_files, j, events>>
    /\ UNCHANGED scadVars

\* lines 43-54: the dashed card rectangle and its label
DrawCardOutline(p) ==
    /\ pc[p] = "outline"
    /\ canvas' = [canvas EXCEPT ![p] =
            @ \o << RectOp(center_x - card_w_pt(cfg) \div 2, center_y - card_h_pt(cfg) \div 2,
                           card_w_pt(cfg), card_h_pt(cfg)),
                    TextOp(center_x, center_y, "Place Pokemon Card Here") >>]
    /\ i' = [i EXCEPT ![p] = 1]
    /\ temp_img_files' = [temp_img_files EXCEPT ![p] = <<>>]
    /\ Step(p, "loop")
    /\ UNCHANGED <<cfg, files, j, events>>
    /\ UNCHANGED scadVars

\* lines 77-82: generate the marker image and write it to its temp file
WriteMarker(p) ==
    /\ pc[p] = "loop"
    /\ i[p] <= Len(marker_ids)
    /\ LET m_id == marker_ids[i[p]]
       IN  /\ files' = Put(files, temp_filename(m_id), generate_marker(m_id))
           /\ temp_img_files' = [temp_img_files EXCEPT ![p] = Append(@, temp_filename(m_id))]
           /\ Log(p, "write", temp_filename(m_id))
    /\ Step(p, "draw")
    /\ UNCHANGED <<cfg, canvas, i, j>>
    /\ UNCHANGED scadVars

\* lines 84-94: drawImage reads the temp file (and raises when it is not
\* there), then the ID label is drawn under it
DrawMarker(p) ==
    /\ pc[p] = "draw"
    /\ LET m_id == marker_ids[i[p]]
           name == temp_filename(m_id)
       IN  IF name \in DOMAIN files
           THEN /\ canvas' = [canvas EXCEPT ![p] =
                       @ \o << ImageOp(name, files[name], draw_x(cfg, i[p]), draw_y(cfg, i[p]),
                                       marker_size_pt(cfg), marker_size_pt(cfg)),
                               StringOp(draw_x(cfg, i[p]), draw_y(cfg, i[p]) - 10 * PtDen, m_id) >>]
                /\ i' = [i EXCEPT ![p] = @ + 1]
                /\ Log(p, "draw", name)
                /\ Step(p, "loop")
           ELSE /\ Step(p, "raised")
                /\ UNCHANGED <<canvas, i, events>>
    /\ UNCHANGED <<cfg, files, temp_img_files, j>>
    /\ UNCHANGED scadVars

\* lines 96-97: showPage and save write the PDF
Save(p) ==
    /\ pc[p] = "loop"
    /\ i[p] > Len(marker_ids)
    /\ files' = Put(files, OUTPUT_FILENAME, PdfFile(canvas[p]))
    /\ Log(p, "save", OUTPUT_FILENAME)
    /\ j' = [j EXCEPT ![p] = 1]
    /\ Step(p, "cleanup")
    /\ UNCHANGED <<cfg, canvas, i, temp_img_files>>
    /\ UNCHANGED scadVars

\* lines 100-101: the next temp file, and whether it exists
CheckExists(p) ==
    /\ pc[p] = "cleanup"
    /\ j[p] <= Len(temp_img_files[p])
    /\ IF temp_img_files[p][j[p]] \in DOMAIN files
       THEN Step(p, "remove") /\ UNCHANGED j
       ELSE Step(p, "cleanup") /\ j' = [j EXCEPT ![p] = @ + 1]
    /\ UNCHANGED <<cfg, files, canvas, i, temp_img_files, events>>
    /\ UNCHANGED scadVars

\* variant: a cleanup that moves on without removing the file
RemoveTempSkipped(p) ==
    /\ pc[p] = "remove"
    /\ j' = [j EXCEPT ![p] = @ + 1]
    /\ Step(p, "cleanup")
    /\ UNCHANGED <<cfg, files, canvas, i, temp_img_files, events>>
    /\ UNCHANGED scadVars

\* line 102: os.remove, which raises when the file is gone
RemoveTemp(p) ==
    /\ pc[p] = "remove"
    /\ LET f == temp_img_files[p][j[p]]
       IN  IF f \in DOMAIN files
           THEN /\ files' = Del(files, f)
                /\ Log(p, "remove", f)
                /\ j' = [j EXCEPT ![p] = @ + 1]
                /\ Step(p, "cleanup")
           ELSE /\ Step(p, "raised")
                /\ UNCHANGED <<files, events, j>>
    /\ UNCHANGED <<cfg, canvas, i, temp_img_files>>
    /\ UNCHANGED scadVars

\* line 104
PrintSuccess(p) ==
    /\ pc[p] = "cleanup"
    /\ j[p] > Len(temp_img_files[p])
    /\ Step(p, "done")
    /\ UNCHANGED <<cfg, files, canvas, i, temp_img_files, j, events>>
    /\ UNCHANGED scadVars

create_mat_pdf(p) ==
    \/ NewCanvas(p)
    \/ DrawCardOutline(p)
    \/ WriteMarker(p)
    \/ DrawMarker(p)
    \/ Save(p)
    \/ CheckExists(p)
    \/ RemoveTemp(p)
    \/ PrintSuccess(p)

----------------------------------------------------------------------------
(* scad-matrix-generator.py.                                               *)

SidePixels == 8      \* drawMarker(aruco_dict, id, 8, 1)
BorderBits == 1
Threshold == 128     \* (inner_grid < 128)

\* The dictionary is an opaque table of the library.  The model runs the
\* generator on synthetic dictionaries: marker id's interior cell (row, col)
\* has intensity Levels[(a*row + b*col + s + id) mod 4], around it a border
\* ring of one intensity.  a = b = 0 gives uniform interiors.
Levels == <<0, 127, 128, 255>>
Dicts == [a : 0..MaxSeed, b : 0..MaxSeed, s : 0..MaxSeed, border : {0, 255}]

\* aruco.drawMarker(dictionary, id, sidePixels, borderBits) with one pixel per
\* cell: the image as rows of pixels, indexed from 0
drawMarker(d, id, side, border) ==
    [row \in 0..(side - 1) |->
        [col \in 0..(side - 1) |->
            IF \/ row < border \/ row >= side - border
               \/ col < border \/ col >= side - border
            THEN d.border
            ELSE Levels[((d.a * row + d.b * col + d.s + id) % Len(Levels)) + 1]]]

\* numpy's a[lo:hi] on an array indexed from 0 (hi cut to the length)
Count(a) == Cardinality(DOMAIN a)
Min(x, y) == IF x < y THEN x ELSE y
PySlice(a, lo, hi) == [n \in 0..(Min(hi, Count(a)) - lo - 1) |-> a[lo + n]]
PySlice2(a, lo1, hi1, lo2, hi2) ==
    [n \in DOMAIN PySlice(a, lo1, hi1) |-> PySlice(PySlice(a, lo1, hi1)[n], lo2, hi2)]

\* line 18: inner_grid = img[1:7, 1:7]
inner_grid(img) == PySlice2(img, 1, 7, 1, 7)

\* variant: the polarity reversed
astype_intBright(grid) ==
    [row \in DOMAIN grid |-> [col \in DOMAIN grid[row] |-> IF grid[row][col] > Threshold THEN 1 ELSE 0]]
\* line 24: bits = (inner_grid < 128).astype(int)
astype_int(grid) ==
    [row \in DOMAIN grid |-> [col \in DOMAIN grid[row] |-> IF grid[row][col] < Threshold THEN 1 ELSE 0]]

\* variant: the last ID left out
scad_idsShort == <<0, 1, 2>>
\* line 11: for id in [0, 1, 2, 3]
scad_ids == <<0, 1, 2, 3>>

\* A printed line: what it is, the ID it names, the values it lists
Line(kind, id, cells) == [kind |-> kind, id |-> id, cells |-> cells]
AsSeq(a) == [n \in 1..Count(a) |-> a[n - 1]]

ScadStep(to) == spc' = to

\* lines 8-9
PrintLegend ==
    /\ spc = "start"
    /\ stdout' = stdout \o << Line("paste", 0 - 1, <<>>), Line("legend", 0 - 1, <<>>) >>
    /\ k' = 1
    /\ ScadStep("loop")
    /\ UNCHANGED <<dict, ids, bits, r>>
    /\ UNCHANGED matVars

\* lines 11-24: the next ID's image, cropped and thresholded; the library
\* raises for an ID that is no index of the dictionary
ExtractBits ==
    /\ spc = "loop"
    /\ k <= Len(ids)
    /\ IF ValidId(ids[k])
       THEN /\ bits' = astype_int(inner_grid(drawMarker(dict, ids[k], SidePixels, BorderBits)))
            /\ ScadStep("header")
       ELSE /\ ScadStep("raised")
            /\ UNCHANGED bits
    /\ UNCHANGED <<dict, ids, k, r, stdout>>
    /\ UNCHANGED matVars

\* lines 26-27
PrintHeader ==
    /\ spc = "header"
    /\ stdout' = stdout \o << Line("comment", ids[k], <<>>), Line("cond", ids[k], <<>>) >>
    /\ r' = 0
    /\ ScadStep("rows")
    /\ UNCHANGED <<dict, ids, k, bits>>
    /\ UNCHANGED matVars

\* lines 28-31
PrintRow ==
    /\ spc = "rows"
    /\ r < Count(bits)
    /\ stdout' = Append(stdout, Line("row", 0 - 1, AsSeq(bits[r])))
    /\ r' = r + 1
    /\ UNCHANGED <<dict, ids, spc, k, bits>>
    /\ UNCHANGED matVars

\* line 32
PrintFooter ==
    /\ spc = "rows"
    /\ r >= Count(bits)
    /\ stdout' = Append(stdout, Line("close", 0 - 1, <<>>))
    /\ k' = k + 1
    /\ ScadStep("loop")
    /\ UNCHANGED <<dict, ids, bits, r>>
    /\ UNCHANGED matVars

\* the loop is exhausted and the script ends
ScadExit ==
    /\ spc = "loop"
    /\ k > Len(ids)
    /\ ScadStep("done")
    /\ UNCHANGED <<dict, ids, k, bits, r, stdout>>
    /\ UNCHANGED matVars

----------------------------------------------------------------------------
(* Specifications.                                                         *)

ScadIdle ==
    /\ dict = [a |-> 0, b |-> 0, s |-> 0, border |-> 0]
    /\ ids = <<>>
    /\ spc = "idle"
    /\ k = 1
    /\ bits = <<>>
    /\ r = 0
    /\ stdout = <<>>

MatStart(running) ==
    /\ files \in InitialDirs
    /\ pc = [p \in Procs |-> IF p \in running THEN "start" ELSE "idle"]
    /\ canvas = [p \in Procs |-> <<>>]
    /\ i = [p \in Procs |-> 1]
    /\ temp_img_files = [p \in Procs |-> <<>>]
    /\ j = [p \in Procs |-> 1]
    /\ events = [p \in Procs |-> <<>>]

\* One invocation, any layout configuration
Init ==
    /\ cfg \in LayoutSpecs
    /\ MatStart({1})
    /\ ScadIdle

Next == \E p \in Procs : create_mat_pdf(p)

Spec == Init /\ [][Next]_vars

\* Concurrent invocations from the same working directory, as configured
InitConc ==
    /\ cfg = Configured
    /\ MatStart(Procs)
    /\ ScadIdle

SpecConc == InitConc /\ [][Next]_vars

MatIdle ==
    /\ cfg = Configured
    /\ files = [f \in {} |-> StaleFile]
    /\ pc = [p \in Procs |-> "idle"]
    /\ canvas = [p \in Procs |-> <<>>]
    /\ i = [p \in Procs |-> 1]
    /\ temp_img_files = [p \in Procs |-> <<>>]
    /\ j = [p \in Procs |-> 1]
    /\ events = [p \in Procs |-> <<>>]

ScadStart ==
    /\ dict \in Dicts
    /\ spc = "start"
    /\ k = 1
    /\ bits = <<>>
    /\ r = 0
    /\ stdout = <<>>

\* The matrix generator as written, on any synthetic dictionary
InitScad ==
    /\ MatIdle
    /\ ScadStart
    /\ ids = scad_ids

NextScad ==
    \/ PrintLegend
    \/ ExtractBits
    \/ PrintHeader
    \/ PrintRow
    \/ PrintFooter
    \/ ScadExit

SpecScad == InitScad /\ [][NextScad]_vars

\* The matrix generator's loop over any short list of requested IDs, those
\* around the end of the dictionary included
IdChoices == {0, 3, DictSize - 1, DictSize, DictSize + 1}
IdLists == UNION { [1..n -> IdChoices] : n \in 1..MaxIds }

InitIds ==
    /\ MatIdle
    /\ ScadStart
    /\ ids \in IdLists

SpecIds == InitIds /\ [][NextScad]_vars

----------------------------------------------------------------------------
(* Properties.                                                             *)

Positive(c) ==
    /\ c.card_width_mm > 0
    /\ c.card_height_mm > 0
    /\ c.marker_size_mm > 0
    /\ c.gap_mm > 0

IsBox(o) == o.op \in {"rect", "image"}
IsImage(o) == o.op = "image"
IsRect(o) == o.op = "rect"
Images(p) == SelectSeq(canvas[p], IsImage)
Rects(p) == SelectSeq(canvas[p], IsRect)
BoxOps(p) == SelectSeq(canvas[p], IsBox)

\* closed rectangles with no point in common
Disjoint(a, b) ==
    \/ a.x + a.w < b.x
    \/ b.x + b.w < a.x
    \/ a.y + a.h < b.y
    \/ b.y + b.h < a.y

\* C1: for a layout whose four values are all positive, the card rectangle
\* and the marker images drawn on the canvas are pairwise disjoint.
C1_PairwiseDisjoint ==
    \A p \in Procs :
        Positive(cfg) =>
            \A m, n \in 1..Len(BoxOps(p)) :
                m < n => Disjoint(BoxOps(p)[m], BoxOps(p)[n])

C1_Witness ==
    /\ Positive(cfg)
    /\ pc[1] = "done"
    /\ Len(Rects(1)) = 1
    /\ Len(Images(1)) = 4

\* centre of a drawn image, relative to the page centre
CentreX(o) == o.x + o.w \div 2 - width \div 2
CentreY(o) == o.y + o.h \div 2 - height \div 2

\* C2: the n-th marker drawn is ID n-1, and its centre is at (-x,+y) for
\* ID 0, (+x,+y) for ID 1, (+x,-y) for ID 2 and (-x,-y) for ID 3 (y grows
\* towards the top of the page); a finished mat holds exactly these four.
C2_CornerOrder ==
    \A p \in Procs :
        /\ \A n \in 1..Len(Images(p)) :
              LET o == Images(p)[n]
              IN  /\ o.marker = n - 1
                  /\ n <= 4
                  /\ CentreX(o) = (IF o.marker \in {0, 3} THEN 0 - x_offset(cfg) ELSE x_offset(cfg))
                  /\ CentreY(o) = (IF o.marker \in {0, 1} THEN y_offset(cfg) ELSE 0 - y_offset(cfg))
        /\ pc[p] = "done" => Len(Images(p)) = 4

C2_Witness ==
    /\ pc[1] = "done"
    /\ Len(Images(1)) = 4
    /\ x_offset(cfg) > 0
    /\ y_offset(cfg) > 0
    /\ cfg # Configured

\* distance from the card rectangle to the image's nearest edge, per axis
ClearX(card, o) ==
    IF o.marker \in {0, 3} THEN card.x - (o.x + o.w) ELSE o.x - (card.x + card.w)
ClearY(card, o) ==
    IF o.marker \in {0, 1} THEN o.y - (card.y + card.h) ELSE card.y - (o.y + o.h)
Abs(v) == IF v < 0 THEN 0 - v ELSE v

\* C3: for every positive marker size each drawn marker's nearest edge is
\* exactly gap_mm from the card outline on both axes, whatever the marker
\* size; as configured the centres are 51.75 mm and 64.45 mm off the page
\* centre.
C3_Clearance ==
    \A p \in Procs :
        cfg.marker_size_mm > 0 =>
            \A n \in 1..Len(Images(p)) :
                LET o == Images(p)[n]
                    card == Rects(p)[1]
                IN  /\ ClearX(card, o) = mm(cfg.gap_mm)
                    /\ ClearY(card, o) = mm(cfg.gap_mm)
                    /\ cfg = Configured =>
                          /\ Abs(CentreX(o)) = mm(5175 * (MmDen \div 100))
                          /\ Abs(CentreY(o)) = mm(6445 * (MmDen \div 100))

C3_Witness ==
    /\ pc[1] = "done"
    /\ Len(Images(1)) = 4
    /\ cfg.marker_size_mm > 0
    /\ cfg.marker_size_mm # MARKER_SIZE_MM
    /\ cfg.gap_mm > 0

\* C6: with a value that is zero or negative nothing is placed, drawn or
\* written: the invocation stops before its first canvas operation.
C6_InvalidLayoutRejected ==
    \A p \in Procs :
        ~Positive(cfg) =>
            /\ canvas[p] = <<>>
            /\ events[p] = <<>>
            /\ pc[p] # "done"

\* C7: under every interleaving no invocation raises, and the temp file an
\* invocation has written is still there when it is about to draw it.
C7_Isolation ==
    \A p \in Procs :
        /\ pc[p] # "raised"
        /\ pc[p] = "draw" => temp_filename(marker_ids[i[p]]) \in DOMAIN files

Where(p, e, f) == {n \in 1..Len(events[p]) : events[p][n] = Event(e, f)}
Before(A, B) == \A a \in A, b \in B : a < b

\* C9: per temp file the order is write, draw, save, remove: every draw has
\* an earlier write of that file, every save comes after every draw, every
\* remove after the save; and a completed run leaves none of the temp files
\* it wrote.
C9_TempFileOrder ==
    \A p \in Procs :
        /\ \A f \in TempNames :
              /\ Where(p, "draw", f) # {} => Where(p, "write", f) # {}
              /\ Where(p, "remove", f) # {} =>
                    /\ Where(p, "draw", f) # {}
                    /\ Where(p, "save", OUTPUT_FILENAME) # {}
              /\ Before(Where(p, "write", f), Where(p, "draw", f))
              /\ Before(Where(p, "draw", f), Where(p, "save", OUTPUT_FILENAME))
              /\ Before(Where(p, "save", OUTPUT_FILENAME), Where(p, "remove", f))
        /\ pc[p] = "done" =>
              /\ Len(temp_img_files[p]) = 4
              /\ \A n \in 1..Len(temp_img_files[p]) :
                    /\ temp_img_files[p][n] \notin DOMAIN files
                    /\ Cardinality(Where(p, "remove", temp_img_files[p][n])) = 1

C9_Witness ==
    /\ pc[1] = "done"
    /\ Len(events[1]) = 13
    /\ OUTPUT_FILENAME \in DOMAIN files

\* C10: as configured, on the letter page, the card rectangle and the four
\* marker images lie inside the page.
C10_InsidePage ==
    \A p \in Procs :
        cfg = Configured =>
            \A n \in 1..Len(BoxOps(p)) :
                LET o == BoxOps(p)[n]
                IN  /\ 0 <= o.x
                    /\ 0 <= o.y
                    /\ o.x + o.w <= letter[1]
                    /\ o.y + o.h <= letter[2]

C10_Witness ==
    /\ cfg = Configured
    /\ pc[1] = "done"
    /\ Len(BoxOps(1)) = 5

\* the image the dictionary holds for the ID being extracted
CurrentImage == drawMarker(dict, ids[k], SidePixels, BorderBits)

\* C4: the extracted matrix has 6 rows of 6 entries, and entry (row, col) is
\* 1 when pixel (row+1, col+1) of the 8x8 image is below 128 and 0 otherwise.
C4_InteriorBits ==
    spc \in {"header", "rows"} =>
        /\ DOMAIN bits = 0..5
        /\ \A row \in 0..5 :
              /\ DOMAIN bits[row] = 0..5
              /\ \A col \in 0..5 :
                    bits[row][col] = (IF CurrentImage[row + 1][col + 1] < 128 THEN 1 ELSE 0)

C4_Witness ==
    /\ spc = "rows"
    /\ ids[k] = 3
    /\ \E row, col \in 0..5 : CurrentImage[row + 1][col + 1] = 127 /\ bits[row][col] = 1
    /\ \E row, col \in 0..5 : CurrentImage[row + 1][col + 1] = 128 /\ bits[row][col] = 0
    /\ dict.border = 255

C8_LookupTable ==
    /\ \A n \in 1..Len(stdout) :
          IF n <= 2
          THEN stdout[n].kind = (IF n = 1 THEN "paste" ELSE "legend")
          ELSE LET e == (n - 3) \div 9
                   o == (n - 3) % 9
                   img == drawMarker(dict, marker_ids[e + 1], SidePixels, BorderBits)
               IN  /\ e < Len(marker_ids)
                   /\ o \in {0, 1} =>
                         /\ stdout[n].kind = (IF o = 0 THEN "comment" ELSE "cond")
                         /\ stdout[n].id = marker_ids[e + 1]
                   /\ o \in 2..7 =>
                         /\ stdout[n].kind = "row"
                         /\ Len(stdout[n].cells) = 6
                         /\ \A col \in 1..6 :
                               stdout[n].cells[col] = (IF img[o - 1][col] < 128 THEN 1 ELSE 0)
                   /\ o = 8 => stdout[n].kind = "close"
    /\ spc = "done" => Len(stdout) = 2 + 9 * Len(marker_ids)

C8_Witness ==
    /\ spc = "done"
    /\ Len(stdout) = 38
    /\ \E n \in 1..Len(stdout) : stdout[n].kind = "row" /\ 1 \in { stdout[n].cells[c] : c \in 1..6 }
    /\ \E n \in 1..Len(stdout) : stdout[n].kind = "row" /\ 0 \in { stdout[n].cells[c] : c \in 1..6 }

====
